---- MODULE Spec2Model ----
(***************************************************************************)
(* Model of the eventLog program: the line codec (models.go: ParseEvent,   *)
(* Event.String, QueryFilters.Validate) and the store (EventStore.Record,  *)
(* EventStore.Query).  Text is a sequence of one-character strings, so     *)
(* splitting, trimming, parsing, formatting and byte-wise comparison are   *)
(* computed the way the code and its libraries compute them.               *)
(***************************************************************************)
EXTENDS Integers, Sequences, FiniteSets, TLC

(***************************************************************************)
(* Characters and text helpers                                             *)
(***************************************************************************)

\* Byte values of the characters the model's texts are made of (ASCII).
Code(c) ==
  CASE c = "\t" -> 9  [] c = " " -> 32 [] c = "\"" -> 34 [] c = "+" -> 43
    [] c = "," -> 44  [] c = "-" -> 45 [] c = "." -> 46
    [] c = "0" -> 48  [] c = "1" -> 49 [] c = "2" -> 50 [] c = "3" -> 51
    [] c = "4" -> 52  [] c = "5" -> 53 [] c = "6" -> 54 [] c = "7" -> 55
    [] c = "8" -> 56  [] c = "9" -> 57 [] c = ":" -> 58
    [] c = "T" -> 84  [] c = "Z" -> 90 [] c = "[" -> 91 [] c = "\\" -> 92
    [] c = "]" -> 93  [] c = "a" -> 97 [] c = "b" -> 98 [] c = "d" -> 100
    [] c = "e" -> 101 [] c = "f" -> 102 [] c = "g" -> 103 [] c = "i" -> 105
    [] c = "l" -> 108 [] c = "n" -> 110 [] c = "o" -> 111 [] c = "r" -> 114
    [] c = "s" -> 115 [] c = "t" -> 116 [] c = "u" -> 117 [] c = "v" -> 118
    [] c = "w" -> 119 [] c = "x" -> 120 [] c = "y" -> 121
    [] c = "{" -> 123 [] c = "|" -> 124 [] c = "}" -> 125

IsDigit(c) == c \in {"0", "1", "2", "3", "4", "5", "6", "7", "8", "9"}

DigitVal(c) == Code(c) - 48

DigitChar(n) == <<"0", "1", "2", "3", "4", "5", "6", "7", "8", "9">>[n + 1]

AllDigits(s) == \A i \in 1..Len(s) : IsDigit(s[i])

\* Value of a sequence of decimal digits.
RECURSIVE Atoi(_)
Atoi(s) ==
  IF s = <<>> THEN 0
  ELSE Atoi(SubSeq(s, 1, Len(s) - 1)) * 10 + DigitVal(s[Len(s)])

\* Decimal digits of a natural number, no padding.
RECURSIVE Itoa(_)
Itoa(n) ==
  IF n < 10 THEN <<DigitChar(n)>>
  ELSE Append(Itoa(n \div 10), DigitChar(n % 10))

\* Decimal digits of n, zero-padded on the left to width w.
RECURSIVE Pad(_, _)
Pad(n, w) ==
  IF w = 0 THEN <<>>
  ELSE Append(Pad(n \div 10, w - 1), DigitChar(n % 10))

\* Byte-wise comparison of two texts (memcmp, then length): a < b.
RECURSIVE TextLess(_, _)
TextLess(a, b) ==
  IF b = <<>> THEN FALSE
  ELSE IF a = <<>> THEN TRUE
  ELSE IF Code(a[1]) # Code(b[1]) THEN Code(a[1]) < Code(b[1])
  ELSE TextLess(Tail(a), Tail(b))

TextLeq(a, b) == a = b \/ TextLess(a, b)

\* strings.TrimSpace: leading and trailing white space removed.
IsSpace(c) == c \in {" ", "\t"}

RECURSIVE TrimLeft(_)
TrimLeft(s) ==
  IF s # <<>> /\ IsSpace(s[1]) THEN TrimLeft(Tail(s)) ELSE s

RECURSIVE TrimRight(_)
TrimRight(s) ==
  IF s # <<>> /\ IsSpace(s[Len(s)]) THEN TrimRight(SubSeq(s, 1, Len(s) - 1))
  ELSE s

TrimSpace(s) == TrimRight(TrimLeft(s))

\* The field delimiter " | ".
Sep == <<" ", "|", " ">>

HasPrefix(s, p) == Len(s) >= Len(p) /\ SubSeq(s, 1, Len(p)) = p

\* strings.Split(s, sep): the fields between the non-overlapping occurrences
\* of sep, found left to right.
RECURSIVE SplitFrom(_, _, _)
SplitFrom(s, sep, cur) ==
  IF s = <<>> THEN <<cur>>
  ELSE IF HasPrefix(s, sep)
       THEN <<cur>> \o SplitFrom(SubSeq(s, Len(sep) + 1, Len(s)), sep, <<>>)
       ELSE SplitFrom(Tail(s), sep, Append(cur, s[1]))

Split(s, sep) == SplitFrom(s, sep, <<>>)

(***************************************************************************)
(* time.Parse(time.RFC3339, s) and Time.Format(time.RFC3339)               *)
(*                                                                         *)
(* A Time is [unix, nsec, off]: seconds since 1970-01-01T00:00:00Z, the    *)
(* fraction of a second in nanoseconds, and the zone offset in seconds.    *)
(* The calendar arithmetic is exact for the years 1970..2037, which is     *)
(* where every timestamp of the model lies.                                *)
(***************************************************************************)

IsLeap(y) == (y % 4 = 0 /\ y % 100 # 0) \/ y % 400 = 0

DaysInMonth(y, m) ==
  IF m = 2 THEN (IF IsLeap(y) THEN 29 ELSE 28)
  ELSE IF m \in {4, 6, 9, 11} THEN 30 ELSE 31

LeapsThrough(y) == (y \div 4) - (y \div 100) + (y \div 400)

\* Days from 1970-01-01 to the first day of year y.
DaysBeforeYear(y) == 365 * (y - 1970) + LeapsThrough(y - 1) - LeapsThrough(1969)

RECURSIVE DaysBeforeMonth(_, _)
DaysBeforeMonth(y, m) ==
  IF m = 1 THEN 0 ELSE DaysBeforeMonth(y, m - 1) + DaysInMonth(y, m - 1)

NoTime == [ok |-> FALSE, unix |-> 0, nsec |-> 0, off |-> 0]

\* Length of the run of digits at the start of s.
RECURSIVE DigitRun(_)
DigitRun(s) ==
  IF s # <<>> /\ IsDigit(s[1]) THEN 1 + DigitRun(Tail(s)) ELSE 0

RECURSIVE Pow10(_)
Pow10(n) == IF n = 0 THEN 1 ELSE 10 * Pow10(n - 1)

\* The zone element "Z07:00": "Z", or a sign and hh:mm.
ParseZone(z) ==
  IF z = <<"Z">> THEN [ok |-> TRUE, off |-> 0]
  ELSE IF /\ Len(z) = 6
          /\ z[1] \in {"+", "-"}
          /\ AllDigits(SubSeq(z, 2, 3))
          /\ z[4] = ":"
          /\ AllDigits(SubSeq(z, 5, 6))
          /\ Atoi(SubSeq(z, 2, 3)) <= 24
          /\ Atoi(SubSeq(z, 5, 6)) <= 60
       THEN [ok |-> TRUE,
             off |-> (IF z[1] = "-" THEN -1 ELSE 1)
                      * (Atoi(SubSeq(z, 2, 3)) * 3600 + Atoi(SubSeq(z, 5, 6)) * 60)]
       ELSE [ok |-> FALSE, off |-> 0]

\* The part after the seconds: an optional fraction (accepted when parsing
\* even though the layout has none), then the zone.
ParseFracZone(r) ==
  IF Len(r) >= 2 /\ r[1] \in {".", ","} /\ IsDigit(r[2])
  THEN LET n == DigitRun(Tail(r))
           k == IF n > 9 THEN 9 ELSE n
           z == ParseZone(SubSeq(r, n + 2, Len(r)))
       IN  [ok |-> z.ok, off |-> z.off,
            nsec |-> Atoi(SubSeq(r, 2, k + 1)) * Pow10(9 - k)]
  ELSE LET z == ParseZone(r)
       IN  [ok |-> z.ok, off |-> z.off, nsec |-> 0]

\* The part from the hour on: the hour is one or two digits, minute and
\* second are two digits each.
ParseClock(c, days) ==
  LET h == IF Len(c) >= 2 /\ IsDigit(c[1]) /\ IsDigit(c[2]) THEN 2
           ELSE IF Len(c) >= 1 /\ IsDigit(c[1]) THEN 1 ELSE 0
  IN  IF \/ h = 0
         \/ Len(c) < h + 6
         \/ c[h + 1] # ":"
         \/ ~AllDigits(SubSeq(c, h + 2, h + 3))
         \/ c[h + 4] # ":"
         \/ ~AllDigits(SubSeq(c, h + 5, h + 6))
      THEN NoTime
      ELSE LET hh == Atoi(SubSeq(c, 1, h))
               mi == Atoi(SubSeq(c, h + 2, h + 3))
               ss == Atoi(SubSeq(c, h + 5, h + 6))
               fz == ParseFracZone(SubSeq(c, h + 7, Len(c)))
           IN  IF hh > 23 \/ mi > 59 \/ ss > 59 \/ ~fz.ok THEN NoTime
               ELSE [ok |-> TRUE,
                     unix |-> days * 86400 + hh * 3600 + mi * 60 + ss - fz.off,
                     nsec |-> fz.nsec,
                     off |-> fz.off]

ParseTime(s) ==
  IF \/ Len(s) < 11
     \/ ~AllDigits(SubSeq(s, 1, 4))
     \/ s[5] # "-"
     \/ ~AllDigits(SubSeq(s, 6, 7))
     \/ s[8] # "-"
     \/ ~AllDigits(SubSeq(s, 9, 10))
     \/ s[11] # "T"
  THEN NoTime
  ELSE LET y == Atoi(SubSeq(s, 1, 4))
           m == Atoi(SubSeq(s, 6, 7))
           d == Atoi(SubSeq(s, 9, 10))
       IN  IF m < 1 \/ m > 12 \/ d < 1 \/ d > DaysInMonth(y, m) THEN NoTime
           ELSE ParseClock(SubSeq(s, 12, Len(s)),
                           DaysBeforeYear(y) + DaysBeforeMonth(y, m) + d - 1)

\* Time.Format(time.RFC3339): the wall clock at the Time's own offset, to
\* the second, then "Z" for offset zero and +hh:mm / -hh:mm otherwise.
FormatZone(off) ==
  IF off = 0 THEN <<"Z">>
  ELSE LET a == IF off < 0 THEN -off ELSE off
       IN  <<IF off < 0 THEN "-" ELSE "+">>
             \o Pad((a \div 60) \div 60, 2) \o <<":">> \o Pad((a \div 60) % 60, 2)

FormatTime(t) ==
  LET local == t.unix + t.off
      days  == local \div 86400
      secs  == local % 86400
      y0    == 1970 + days \div 366
      y     == CHOOSE yy \in {y0, y0 + 1} :
                 DaysBeforeYear(yy) <= days /\ days < DaysBeforeYear(yy + 1)
      yd    == days - DaysBeforeYear(y)
      m     == CHOOSE mm \in 1..12 :
                 /\ DaysBeforeMonth(y, mm) <= yd
                 /\ yd < DaysBeforeMonth(y, mm) + DaysInMonth(y, mm)
      d     == yd - DaysBeforeMonth(y, m) + 1
  IN  Pad(y, 4) \o <<"-">> \o Pad(m, 2) \o <<"-">> \o Pad(d, 2) \o <<"T">>
        \o Pad(secs \div 3600, 2) \o <<":">> \o Pad((secs \div 60) % 60, 2)
        \o <<":">> \o Pad(secs % 60, 2) \o FormatZone(t.off)

\* Time.After: comparison of instants, whatever the offsets.
After(a, b) == a.unix > b.unix \/ (a.unix = b.unix /\ a.nsec > b.nsec)

(***************************************************************************)
(* strconv.ParseInt(s, 10, 64) and the %d verb                             *)
(***************************************************************************)

\* An optional sign and at least one digit; more than 19 digits cannot be
\* an int64.  The user ids of the model have at most 9 digits.
ParseInt(s) ==
  LET signed == s # <<>> /\ s[1] \in {"+", "-"}
      digits == IF signed THEN Tail(s) ELSE s
  IN  IF digits = <<>> \/ ~AllDigits(digits) \/ Len(digits) > 19
      THEN [ok |-> FALSE, val |-> 0]
      ELSE [ok |-> TRUE,
            val |-> IF signed /\ s[1] = "-" THEN -Atoi(digits) ELSE Atoi(digits)]

FormatInt(n) == IF n < 0 THEN <<"-">> \o Itoa(-n) ELSE Itoa(n)

(***************************************************************************)
(* json.Unmarshal(data, &RawMessage): the syntax check of encoding/json.   *)
(* Each operator takes the text and a position and returns the position    *)
(* after what it accepted, or 0 when the text is not valid there.          *)
(***************************************************************************)

At(s, i) == IF i >= 1 /\ i <= Len(s) THEN s[i] ELSE "eof"

RECURSIVE SkipWS(_, _)
SkipWS(s, i) == IF IsSpace(At(s, i)) THEN SkipWS(s, i + 1) ELSE i

RECURSIVE SkipDigits(_, _)
SkipDigits(s, i) == IF IsDigit(At(s, i)) THEN SkipDigits(s, i + 1) ELSE i

IsHex(c) == IsDigit(c) \/ c \in {"a", "b", "c", "d", "e", "f"}

\* i is the position after the opening quote.
RECURSIVE JString(_, _)
JString(s, i) ==
  LET c == At(s, i)
  IN  IF c = "eof" \/ c = "\t" THEN 0
      ELSE IF c = "\"" THEN i + 1
      ELSE IF c = "\\"
           THEN IF At(s, i + 1) \in {"\"", "\\", "b", "f", "n", "r", "t"}
                THEN JString(s, i + 2)
                ELSE IF At(s, i + 1) = "u" /\ \A k \in 2..5 : IsHex(At(s, i + k))
                THEN JString(s, i + 6)
                ELSE 0
      ELSE JString(s, i + 1)

JNumber(s, i) ==
  LET a == IF At(s, i) = "-" THEN i + 1 ELSE i
      b == IF At(s, a) = "0" THEN a + 1
           ELSE IF IsDigit(At(s, a)) THEN SkipDigits(s, a) ELSE 0
      c == IF b = 0 THEN 0
           ELSE IF At(s, b) = "."
                THEN (IF IsDigit(At(s, b + 1)) THEN SkipDigits(s, b + 1) ELSE 0)
                ELSE b
      d == IF c = 0 THEN 0
           ELSE IF At(s, c) = "e"
                THEN LET x == IF At(s, c + 1) \in {"+", "-"} THEN c + 2 ELSE c + 1
                     IN  IF IsDigit(At(s, x)) THEN SkipDigits(s, x) ELSE 0
                ELSE c
  IN  d

HasAt(s, i, w) == i + Len(w) - 1 <= Len(s) /\ SubSeq(s, i, i + Len(w) - 1) = w

RECURSIVE JValue(_, _)
RECURSIVE JMembers(_, _)
RECURSIVE JElements(_, _)

JValue(s, i) ==
  LET c == At(s, i)
  IN  IF c = "{"
      THEN LET j == SkipWS(s, i + 1)
           IN  IF At(s, j) = "}" THEN j + 1 ELSE JMembers(s, j)
      ELSE IF c = "["
      THEN LET j == SkipWS(s, i + 1)
           IN  IF At(s, j) = "]" THEN j + 1 ELSE JElements(s, j)
      ELSE IF c = "\"" THEN JString(s, i + 1)
      ELSE IF c = "-" \/ IsDigit(c) THEN JNumber(s, i)
      ELSE IF HasAt(s, i, <<"n", "u", "l", "l">>) THEN i + 4
      ELSE IF HasAt(s, i, <<"t", "r", "u", "e">>) THEN i + 4
      ELSE IF HasAt(s, i, <<"f", "a", "l", "s", "e">>) THEN i + 5
      ELSE 0

\* "key" : value, then "," and more members, or "}".
JMembers(s, i) ==
  IF At(s, i) # "\"" THEN 0
  ELSE LET k == JString(s, i + 1)
           c == SkipWS(s, k)
       IN  IF k = 0 \/ At(s, c) # ":" THEN 0
           ELSE LET v == JValue(s, SkipWS(s, c + 1))
                    e == SkipWS(s, v)
                IN  IF v = 0 THEN 0
                    ELSE IF At(s, e) = "," THEN JMembers(s, SkipWS(s, e + 1))
                    ELSE IF At(s, e) = "}" THEN e + 1
                    ELSE 0

\* value, then "," and more elements, or "]".
JElements(s, i) ==
  LET v == JValue(s, i)
      e == SkipWS(s, v)
  IN  IF v = 0 THEN 0
      ELSE IF At(s, e) = "," THEN JElements(s, SkipWS(s, e + 1))
      ELSE IF At(s, e) = "]" THEN e + 1
      ELSE 0

ValidJSON(s) ==
  LET p == JValue(s, SkipWS(s, 1))
  IN  p # 0 /\ SkipWS(s, p) = Len(s) + 1

(***************************************************************************)
(* models.go: Event, Event.String, ParseEvent                              *)
(***************************************************************************)

\* An Event is [Timestamp, UserID, EventType, Payload].
NoEvent == [Timestamp |-> NoTime, UserID |-> 0, EventType |-> <<>>, Payload |-> <<>>]

\* Event.String
String(e) ==
  FormatTime(e.Timestamp) \o Sep \o FormatInt(e.UserID) \o Sep
    \o e.EventType \o Sep \o e.Payload

\* ParseEvent gone wrong: a line of more than four parts is decoded from
\* its first four.
ParseEventFirstFour(line) ==
  LET parts == Split(line, Sep)
  IN  IF Len(parts) < 4 THEN [err |-> "MalformedLine", event |-> NoEvent]
      ELSE LET timestamp  == ParseTime(TrimSpace(parts[1]))
               userID     == ParseInt(TrimSpace(parts[2]))
               eventType  == TrimSpace(parts[3])
               payloadStr == TrimSpace(parts[4])
           IN  IF ~timestamp.ok THEN [err |-> "InvalidTimestamp", event |-> NoEvent]
               ELSE IF ~userID.ok THEN [err |-> "InvalidUserID", event |-> NoEvent]
               ELSE IF eventType = <<>> THEN [err |-> "EmptyEventType", event |-> NoEvent]
               ELSE IF ~ValidJSON(payloadStr)
                    THEN [err |-> "InvalidPayload", event |-> NoEvent]
               ELSE [err |-> "nil",
                     event |-> [Timestamp |-> timestamp,
                                UserID    |-> userID.val,
                                EventType |-> eventType,
                                Payload   |-> payloadStr]]

\* ParseEvent returns (event, error); err is "nil" on success.
ParseEvent(line) ==
  LET parts == Split(line, Sep)
  IN  IF Len(parts) # 4 THEN [err |-> "MalformedLine", event |-> NoEvent]
      ELSE LET timestamp  == ParseTime(TrimSpace(parts[1]))
               userID     == ParseInt(TrimSpace(parts[2]))
               eventType  == TrimSpace(parts[3])
               payloadStr == TrimSpace(parts[4])
           IN  IF ~timestamp.ok THEN [err |-> "InvalidTimestamp", event |-> NoEvent]
               ELSE IF ~userID.ok THEN [err |-> "InvalidUserID", event |-> NoEvent]
               ELSE IF eventType = <<>> THEN [err |-> "EmptyEventType", event |-> NoEvent]
               ELSE IF ~ValidJSON(payloadStr)
                    THEN [err |-> "InvalidPayload", event |-> NoEvent]
               ELSE [err |-> "nil",
                     event |-> [Timestamp |-> timestamp,
                                UserID    |-> userID.val,
                                EventType |-> eventType,
                                Payload   |-> payloadStr]]

\* QueryFilters.IsEmpty, QueryFilters.Validate.  The zero Time, which is
\* also what time.Parse returns with an error, is NoTime.
ZeroTime == NoTime

IsZero(t) == ~t.ok

IsEmpty(qf) == qf.EventType = <<>> /\ IsZero(qf.From) /\ IsZero(qf.To)

\* Validate gone wrong: equal bounds are refused too.
ValidateNotBefore(qf) ==
  IF ~IsZero(qf.From) /\ ~IsZero(qf.To) /\ ~After(qf.To, qf.From)
  THEN "InvalidRange" ELSE "nil"

Validate(qf) ==
  IF ~IsZero(qf.From) /\ ~IsZero(qf.To) /\ After(qf.From, qf.To)
  THEN "InvalidRange" ELSE "nil"

\* The filters after Validate has run on them: the method has a pointer
\* receiver and only reads through it.
AfterValidate(qf) == qf

(***************************************************************************)
(* Texts the model draws its inputs from                                   *)
(***************************************************************************)

\* 2023-08-14T10:00:00Z
TsTenZ ==
  <<"2", "0", "2", "3", "-", "0", "8", "-", "1", "4", "T", "1", "0", ":",
  "0", "0", ":", "0", "0", "Z">>

\* 2023-08-14T10:00:00+02:00, the instant 08:00:00Z
TsTenPlus2 ==
  <<"2", "0", "2", "3", "-", "0", "8", "-", "1", "4", "T", "1", "0", ":",
  "0", "0", ":", "0", "0", "+", "0", "2", ":", "0", "0">>

\* 2023-08-14T09:00:00Z
TsNineZ ==
  <<"2", "0", "2", "3", "-", "0", "8", "-", "1", "4", "T", "0", "9", ":",
  "0", "0", ":", "0", "0", "Z">>

\* 2023-08-14T09:00:00+00:00, the instant of TsNineZ
TsNinePlus0 ==
  <<"2", "0", "2", "3", "-", "0", "8", "-", "1", "4", "T", "0", "9", ":",
  "0", "0", ":", "0", "0", "+", "0", "0", ":", "0", "0">>

\* 2023-02-30T09:00:00Z: no such day
TsBad ==
  <<"2", "0", "2", "3", "-", "0", "2", "-", "3", "0", "T", "0", "9", ":",
  "0", "0", ":", "0", "0", "Z">>

\* user ids
Uid42 ==
  <<"4", "2">>

Uid7 ==
  <<"7">>

UidPlus7 ==
  <<"+", "7">>

UidBad ==
  <<"4", "x">>

\* event types
TyLogin ==
  <<"l", "o", "g", "i", "n">>

TyView ==
  <<"v", "i", "e", "w">>

TyEmpty ==
  <<>>

\* payloads: {}  null  {"a":1}  {"a":"x | y"}  {bad
PayEmptyObj ==
  <<"{", "}">>

PayNull ==
  <<"n", "u", "l", "l">>

PayObj ==
  <<"{", "\"", "a", "\"", ":", "1", "}">>

PayPipe ==
  <<"{", "\"", "a", "\"", ":", "\"", "x", " ", "|", " ", "y", "\"", "}">>

PayBad ==
  <<"{", "b", "a", "d">>


MkLine(ts, uid, ty, pay) == ts \o Sep \o uid \o Sep \o ty \o Sep \o pay

\* Lines a file may hold: valid lines of two users with timestamps at
\* different offsets, the empty line, a line of blanks, and a line whose
\* payload contains the delimiter.
LineA == MkLine(TsNineZ, Uid42, TyLogin, PayEmptyObj)
LineB == MkLine(TsTenPlus2, Uid42, TyView, PayNull)
LineD == MkLine(TsTenZ, Uid7, TyLogin, PayObj)
LineEmpty == <<>>
LineBlank == <<" ", " ">>
LinePipe == MkLine(TsNineZ, Uid42, TyView, PayPipe)

\* A line that decodes although it is not canonical: blanks around the
\* fields, a fraction of a second, a signed user id.
\* " 2023-08-14T10:00:00.5Z |  +42 | login  | {} "
TsTenFracZ == SubSeq(TsTenZ, 1, 19) \o <<".", "5", "Z">>

UidPlus42 == <<"+", "4", "2">>

LineLoose ==
  <<" ">> \o MkLine(TsTenFracZ, <<" ">> \o UidPlus42, TyLogin \o <<" ">>, PayEmptyObj)
    \o <<" ">>

\* Lines of four fields of which one is not accepted.
LineBadTs == MkLine(TsBad, Uid42, TyLogin, PayEmptyObj)
LineBadUid == MkLine(TsNineZ, UidBad, TyLogin, PayEmptyObj)
LineNoType == MkLine(TsNineZ, Uid42, TyEmpty, PayEmptyObj)
LineBadPay == MkLine(TsNineZ, Uid42, TyLogin, PayBad)

Lines == {LineA, LineB, LineD, LineEmpty, LineBlank, LinePipe}

\* The lines of the one-line files: those, the line that is not canonical,
\* and a line for every other error of ParseEvent.
FileLines ==
  Lines \cup {LineLoose, LineBadTs, LineBadUid, LineNoType, LineBadPay}

\* Values computed once.  A query applies ParseTime and FormatTime to the
\* same few texts for every row; these tables hold the results for the
\* texts above, and the operators below look a text up and compute the
\* result for any other.
TimeTable ==
  [s \in {TsTenZ, TsTenPlus2, TsNineZ, TsNinePlus0, TsBad, TsTenFracZ} |-> ParseTime(s)]

TextTable ==
  [t \in {TimeTable[s] : s \in {TsTenZ, TsTenPlus2, TsNineZ, TsTenFracZ}} |->
     FormatTime(t)]

ParseTimeOf(s) == IF s \in DOMAIN TimeTable THEN TimeTable[s] ELSE ParseTime(s)

FormatTimeOf(t) == IF t \in DOMAIN TextTable THEN TextTable[t] ELSE FormatTime(t)

\* Bounds of the model: the lines read over all calls of Record, and the
\* batch threshold (10000 in the program, scaled down).
MaxLines == 4
maxBatchSize == 2

(***************************************************************************)
(* The store: EventStore.Record and EventStore.Query                       *)
(***************************************************************************)

VARIABLES
  pc,         \* where Record is: idle, scan, commit, begin, final, returned, crashed
  persisted,  \* the committed rows of the events table, in insertion order
  txs,        \* the transactions this call of Record has begun, in order
  count,      \* Record's local count
  batchSize,  \* Record's local batchSize
  ret,        \* what Record returned: [count, err]
  line,       \* Record's local line: the last line the scanner delivered
  base,       \* history: number of persisted rows when this call began
  nonEmpty,   \* history: non-empty lines delivered to this call
  nBad,       \* history: those of them that do not decode
  warned,     \* history: warnings this call printed
  progress,   \* history: the counts this call printed as progress
  linesRead,  \* lines read so far, over all calls
  q,          \* the last Query and what it yielded
  codec       \* a text or an event taken through the codec by itself

storeVars == <<pc, persisted, txs, count, batchSize, ret, line, base,
               nonEmpty, nBad, warned, progress, linesRead, q>>

vars == <<storeVars, codec>>

NoFilters == [EventType |-> <<>>, From |-> ZeroTime, To |-> ZeroTime]

NoQuery == [pc |-> "none", userID |-> 0, filters |-> NoFilters, err |-> "nil",
            ids |-> <<>>, out |-> <<>>, count |-> 0, steps |-> <<>>,
            given |-> NoFilters]

NoCodec == [pc |-> "none", line |-> <<>>, event |-> NoEvent, err |-> "nil",
            text |-> <<>>, event2 |-> NoEvent]

InitStore ==
  /\ pc = "idle"
  /\ persisted = <<>>
  /\ txs = <<>>
  /\ count = 0
  /\ batchSize = 0
  /\ ret = [count |-> 0, err |-> "nil"]
  /\ line = <<>>
  /\ base = 0
  /\ nonEmpty = 0
  /\ nBad = 0
  /\ warned = 0
  /\ progress = <<>>
  /\ linesRead = 0
  /\ q = NoQuery

Init == InitStore /\ codec = NoCodec

\* NewEventStore gone wrong: the table is created anew, without IF NOT
\* EXISTS after a DROP.
NewEventStoreRecreates(p) ==
  [persisted |-> <<>>,
   steps |-> <<"sql.Open", "pragmas", "createTableSQL", "indexes", "insertStmt">>]

\* NewEventStore("events.db"), which handleRecord and handleQuery call
\* first: the statements it runs on the storage, in order, and the rows of
\* the table afterwards (CREATE TABLE IF NOT EXISTS leaves them alone).
NewEventStore(p) ==
  [persisted |-> p,
   steps |-> <<"sql.Open", "pragmas", "createTableSQL", "indexes", "insertStmt">>]

\* RowOf gone wrong: the timestamp is stored as seconds since the epoch.
RowOfUnixSeconds(id, event) ==
  [id         |-> id,
   user_id    |-> event.UserID,
   timestamp  |-> FormatInt(event.Timestamp.unix),
   event_type |-> event.EventType,
   payload    |-> event.Payload]

\* The row stmt.Exec inserts for an event; the timestamp is stored as text.
RowOf(id, event) ==
  [id         |-> id,
   user_id    |-> event.UserID,
   timestamp  |-> FormatTime(event.Timestamp),
   event_type |-> event.EventType,
   payload    |-> event.Payload]

NewTx == [status |-> "open", rows |-> <<>>]

\* The transaction the variable tx refers to: the last one begun.
Tx == txs[Len(txs)]

\* BatchFull gone wrong: the batch is committed one record late.
BatchFullLate(n) == n > maxBatchSize

\* The batch is full: batchSize >= maxBatchSize.
BatchFull(n) == n >= maxBatchSize

\* Exec gone wrong: the insert runs on the database handle, outside the
\* transaction, and is persisted at once.
ExecOnHandle(t, p, row) == [txs |-> t, persisted |-> Append(p, row)]

\* stmt.Exec, stmt being the insert statement bound to the current
\* transaction: the row is staged there and nothing is persisted yet.
Exec(t, p, row) ==
  [txs |-> [t EXCEPT ![Len(t)].rows = Append(@, row)], persisted |-> p]

\* defer tx.Rollback(): the receiver is the transaction that tx referred to
\* when the defer statement ran, which is the first one.  Rolling back a
\* transaction that is already done is a no-op (ErrTxDone).
DeferredRollback(t) ==
  IF t # <<>> /\ t[1].status = "open"
  THEN [t EXCEPT ![1].status = "rolledback"]
  ELSE t

\* A return of Record: the deferred calls run, then the caller has (c, e).
Return(c, e, t) ==
  /\ pc' = "returned"
  /\ ret' = [count |-> c, err |-> e]
  /\ txs' = DeferredRollback(t)

\* The process ends (exit or crash): the storage engine discards every
\* transaction that was neither committed nor rolled back.
Abandon(t) ==
  [i \in 1..Len(t) |->
     IF t[i].status = "open" THEN [t[i] EXCEPT !.status = "abandoned"] ELSE t[i]]

\* A call of Record starts in a fresh process.
StartCall ==
  /\ pc = "idle"
  /\ q.pc = "none"
  /\ persisted' = NewEventStore(persisted).persisted
  /\ UNCHANGED <<count, batchSize, line, base, nonEmpty, nBad,
                 warned, progress, linesRead, q, codec>>

\* os.Open fails.
RecordOpenFails ==
  /\ StartCall
  /\ Return(0, "open", <<>>)

\* es.db.Begin fails.
RecordBeginFails ==
  /\ StartCall
  /\ Return(0, "begin", <<>>)

\* The file is open and the first transaction begun; the loop starts.
RecordBegin ==
  /\ StartCall
  /\ txs' = <<NewTx>>
  /\ pc' = "scan"
  /\ UNCHANGED <<ret, codec>>

\* One iteration of the loop for a line the scanner delivers: the empty
\* line is skipped, a line that does not decode is skipped with a warning,
\* and the event of any other line is inserted in the current transaction.
ScanLine ==
  /\ pc = "scan"
  /\ q.pc = "none"
  /\ linesRead < MaxLines
  /\ \E l \in Lines :
       LET r == ParseEvent(l)
       IN  /\ line' = l
           /\ linesRead' = linesRead + 1
           /\ nonEmpty' = IF l # <<>> THEN nonEmpty + 1 ELSE nonEmpty
           /\ nBad' = IF l # <<>> /\ r.err # "nil" THEN nBad + 1 ELSE nBad
           /\ IF l = <<>>
              THEN UNCHANGED <<pc, persisted, txs, count, batchSize, warned>>
              ELSE IF r.err # "nil"
              THEN /\ warned' = warned + 1
                   /\ UNCHANGED <<pc, persisted, txs, count, batchSize>>
              ELSE /\ LET x == Exec(txs, persisted,
                                     RowOf(Len(persisted) + Len(Tx.rows) + 1, r.event))
                      IN  txs' = x.txs /\ persisted' = x.persisted
                   /\ count' = count + 1
                   /\ batchSize' = batchSize + 1
                   /\ pc' = IF BatchFull(batchSize + 1) THEN "commit" ELSE "scan"
                   /\ UNCHANGED warned
  /\ UNCHANGED <<ret, base, progress, q, codec>>

\* stmt.Exec fails for a line that decoded.
InsertFails ==
  /\ pc = "scan"
  /\ q.pc = "none"
  /\ linesRead < MaxLines
  /\ \E l \in Lines :
       /\ l # <<>>
       /\ ParseEvent(l).err = "nil"
       /\ line' = l
  /\ linesRead' = linesRead + 1
  /\ nonEmpty' = nonEmpty + 1
  /\ Return(count, "insert", txs)
  /\ UNCHANGED <<persisted, count, batchSize, base, nBad, warned, progress, q,
                 codec>>

\* tx.Commit succeeds on a full batch: its rows are persisted, progress is
\* printed.
CommitBatch ==
  /\ pc = "commit"
  /\ q.pc = "none"
  /\ persisted' = persisted \o Tx.rows
  /\ txs' = [txs EXCEPT ![Len(txs)].status = "committed"]
  /\ progress' = Append(progress, count)
  /\ pc' = "begin"
  /\ UNCHANGED <<count, batchSize, ret, line, base, nonEmpty,
                 nBad, warned, linesRead, q, codec>>

\* tx.Commit fails on a full batch: nothing of it is persisted and the
\* transaction is done.
CommitBatchFails ==
  /\ pc = "commit"
  /\ q.pc = "none"
  /\ Return(count, "commit", [txs EXCEPT ![Len(txs)].status = "failed"])
  /\ UNCHANGED <<persisted, count, batchSize, line, base, nonEmpty,
                 nBad, warned, progress, linesRead, q, codec>>

\* BeginNext gone wrong: batchSize is not set back to 0.
BeginNextKeepsSize ==
  /\ pc = "begin"
  /\ q.pc = "none"
  /\ txs' = Append(txs, NewTx)
  /\ pc' = "scan"
  /\ UNCHANGED <<persisted, count, batchSize, ret, line, base, nonEmpty,
                 nBad, warned, progress, linesRead, q, codec>>

\* es.db.Begin for the next batch.
BeginNext ==
  /\ pc = "begin"
  /\ q.pc = "none"
  /\ txs' = Append(txs, NewTx)
  /\ batchSize' = 0
  /\ pc' = "scan"
  /\ UNCHANGED <<persisted, count, ret, line, base, nonEmpty,
                 nBad, warned, progress, linesRead, q, codec>>

BeginNextFails ==
  /\ pc = "begin"
  /\ q.pc = "none"
  /\ Return(count, "begin", txs)
  /\ UNCHANGED <<persisted, count, batchSize, line, base, nonEmpty,
                 nBad, warned, progress, linesRead, q, codec>>

\* scanner.Scan returns false at the end of the file.
ScanEOF ==
  /\ pc = "scan"
  /\ q.pc = "none"
  /\ pc' = "final"
  /\ UNCHANGED <<persisted, txs, count, batchSize, ret, line, base, nonEmpty,
                 nBad, warned, progress, linesRead, q, codec>>

\* scanner.Scan returns false because reading failed: scanner.Err() is set.
ScanFails ==
  /\ pc = "scan"
  /\ q.pc = "none"
  /\ Return(count, "read", txs)
  /\ UNCHANGED <<persisted, count, batchSize, line, base, nonEmpty,
                 nBad, warned, progress, linesRead, q, codec>>

\* CommitFinal gone wrong: the commit after the loop is missing, so the
\* deferred rollback ends the call.
CommitFinalMissing ==
  /\ pc = "final"
  /\ q.pc = "none"
  /\ Return(count, "nil", txs)
  /\ UNCHANGED <<persisted, count, batchSize, line, base, nonEmpty,
                 nBad, warned, progress, linesRead, q, codec>>

\* The commit after the loop, of whatever the current transaction holds.
CommitFinal ==
  /\ pc = "final"
  /\ q.pc = "none"
  /\ persisted' = persisted \o Tx.rows
  /\ Return(count, "nil", [txs EXCEPT ![Len(txs)].status = "committed"])
  /\ UNCHANGED <<count, batchSize, line, base, nonEmpty,
                 nBad, warned, progress, linesRead, q, codec>>

CommitFinalFails ==
  /\ pc = "final"
  /\ q.pc = "none"
  /\ Return(count, "commit", [txs EXCEPT ![Len(txs)].status = "failed"])
  /\ UNCHANGED <<persisted, count, batchSize, line, base, nonEmpty,
                 nBad, warned, progress, linesRead, q, codec>>

\* The process dies while Record runs.
Crash ==
  /\ pc \in {"scan", "commit", "begin", "final"}
  /\ q.pc = "none"
  /\ pc' = "crashed"
  /\ txs' = Abandon(txs)
  /\ UNCHANGED <<persisted, count, batchSize, ret, line, base, nonEmpty,
                 nBad, warned, progress, linesRead, q, codec>>

\* handleRecord ends the process after Record has returned, and after a
\* crash the program may be run again: nothing but the persisted rows
\* outlives the process.
Exit ==
  /\ pc \in {"returned", "crashed"}
  /\ q.pc = "none"
  /\ pc' = "idle"
  /\ txs' = <<>>
  /\ count' = 0
  /\ batchSize' = 0
  /\ ret' = [count |-> 0, err |-> "nil"]
  /\ line' = <<>>
  /\ base' = Len(persisted)
  /\ nonEmpty' = 0
  /\ nBad' = 0
  /\ warned' = 0
  /\ progress' = <<>>
  /\ UNCHANGED <<persisted, linesRead, q, codec>>

(***************************************************************************)
(* EventStore.Query                                                        *)
(***************************************************************************)

\* handleQuery: the filters of the flags --type, --from, --to; a flag that
\* is not given is the empty text.
MakeFilters(ty, fromStr, toStr) ==
  [EventType |-> ty,
   From      |-> IF fromStr = <<>> THEN ZeroTime ELSE ParseTimeOf(fromStr),
   To        |-> IF toStr = <<>> THEN ZeroTime ELSE ParseTimeOf(toStr)]

QueryUsers == {42, 7}
QueryTypes == {<<>>, TyLogin}
QueryBounds == {<<>>, TsNineZ, TsTenZ, TsTenPlus2}

\* Matches gone wrong: the WHERE clause lacks user_id = ?.
MatchesAnyUser(row, userID, filters) ==
  /\ filters.EventType # <<>> => row.event_type = filters.EventType
  /\ ~IsZero(filters.From) => TextLeq(FormatTimeOf(filters.From), row.timestamp)
  /\ ~IsZero(filters.To) => TextLeq(row.timestamp, FormatTimeOf(filters.To))

\* The WHERE clause: user_id is compared as an integer, event_type and
\* timestamp as text, the bounds being formatted to text first.
Matches(row, userID, filters) ==
  /\ row.user_id = userID
  /\ filters.EventType # <<>> => row.event_type = filters.EventType
  /\ ~IsZero(filters.From) => TextLeq(FormatTimeOf(filters.From), row.timestamp)
  /\ ~IsZero(filters.To) => TextLeq(row.timestamp, FormatTimeOf(filters.To))

\* Visible gone wrong: the query runs inside the writer's transaction and
\* reads what it has staged.
VisibleDirty ==
  persisted \o (IF txs # <<>> /\ Tx.status = "open" THEN Tx.rows ELSE <<>>)

\* The rows a statement run on the database handle reads: the committed
\* ones, never those of a transaction in flight.
Visible == persisted

\* Orderings gone wrong: the SELECT has no ORDER BY and the rows come in
\* the order of their ids.
OrderingsById(S) ==
  {s \in [1..Cardinality(S) -> S] :
     \A i, j \in 1..Cardinality(S) : i < j => s[i].id < s[j].id}

\* ORDER BY timestamp: every order of the rows that is non-decreasing in
\* the timestamp text; rows with equal text come in any order.
RECURSIVE Orderings(_)
Orderings(S) ==
  IF S = {} THEN {<<>>}
  ELSE UNION {{<<r>> \o t : t \in Orderings(S \ {r})} :
                r \in {m \in S : \A o \in S : TextLeq(m.timestamp, o.timestamp)}}

\* The event the loop over the rows builds from a row.
ScanRow(row) ==
  [Timestamp |-> ParseTimeOf(row.timestamp),
   UserID    |-> row.user_id,
   EventType |-> row.event_type,
   Payload   |-> row.payload]

\* handleQuery for the given flags, es.db.Query and the loop over the rows
\* succeeding: NewEventStore, then Query(userID, filters), which validates
\* the filters before it runs the SELECT.  steps is what the command did,
\* in order.
QueryWith(userID, ty, fromStr, toStr) ==
  LET given == MakeFilters(ty, fromStr, toStr)
      filters == AfterValidate(given)
      store == NewEventStore(persisted)
      sel == {Visible[i] : i \in {j \in 1..Len(Visible) :
                                    Matches(Visible[j], userID, filters)}}
  IN  /\ q.pc = "none"
      /\ persisted' = store.persisted
      /\ IF Validate(given) # "nil"
         THEN q' = [pc |-> "done", userID |-> userID, filters |-> filters,
                    err |-> "InvalidRange", ids |-> <<>>, out |-> <<>>,
                    count |-> 0, steps |-> store.steps \o <<"Validate">>,
                    given |-> given]
         ELSE \E rows \in Orderings(sel) :
                q' = [pc |-> "done", userID |-> userID, filters |-> filters,
                      err |-> "nil",
                      ids |-> [i \in 1..Len(rows) |-> rows[i].id],
                      out |-> [i \in 1..Len(rows) |-> ScanRow(rows[i])],
                      count |-> Len(rows),
                      steps |-> store.steps \o <<"Validate", "es.db.Query">>,
                      given |-> given]
      /\ UNCHANGED <<pc, txs, count, batchSize, ret, line, base,
                     nonEmpty, nBad, warned, progress, linesRead, codec>>

\* handleQuery for the given flags when the storage fails: es.db.Query
\* returns an error, or rows.Scan or rows.Err does after n rows were
\* printed.
QueryFailsWith(userID, ty, fromStr, toStr) ==
  LET given == MakeFilters(ty, fromStr, toStr)
      filters == AfterValidate(given)
      store == NewEventStore(persisted)
      sel == {Visible[i] : i \in {j \in 1..Len(Visible) :
                                    Matches(Visible[j], userID, filters)}}
  IN  /\ q.pc = "none"
      /\ Validate(given) = "nil"
      /\ persisted' = store.persisted
      /\ \/ q' = [pc |-> "done", userID |-> userID, filters |-> filters,
                  err |-> "query", ids |-> <<>>, out |-> <<>>, count |-> 0,
                  steps |-> store.steps \o <<"Validate", "es.db.Query">>,
                  given |-> given]
         \/ \E rows \in Orderings(sel) : \E n \in 0..Len(rows) :
              q' = [pc |-> "done", userID |-> userID, filters |-> filters,
                    err |-> "scan",
                    ids |-> [i \in 1..n |-> rows[i].id],
                    out |-> [i \in 1..n |-> ScanRow(rows[i])],
                    count |-> n,
                    steps |-> store.steps \o <<"Validate", "es.db.Query">>,
                    given |-> given]
      /\ UNCHANGED <<pc, txs, count, batchSize, ret, line, base,
                     nonEmpty, nBad, warned, progress, linesRead, codec>>

\* A query with any of the flags.
Query ==
  \E userID \in QueryUsers, ty \in QueryTypes,
     fromStr \in QueryBounds, toStr \in QueryBounds :
    QueryWith(userID, ty, fromStr, toStr)

\* A query of all of a user's events, which may run while Record does.
QueryAll ==
  \E userID \in QueryUsers : QueryWith(userID, <<>>, <<>>, <<>>)

\* The same when the storage fails.
QueryAllFails ==
  \E userID \in QueryUsers : QueryFailsWith(userID, <<>>, <<>>, <<>>)

\* A query whose --from is after its --to, which may run while Record does.
QueryInvalid ==
  \E userID \in QueryUsers : QueryWith(userID, <<>>, TsTenZ, TsNineZ)

\* The query's process ends.
QueryClose ==
  /\ q.pc = "done"
  /\ q' = NoQuery
  /\ UNCHANGED <<pc, persisted, txs, count, batchSize, ret, line, base,
                 nonEmpty, nBad, warned, progress, linesRead, codec>>

\* A whole call of Record, in a process of its own, on a file of one line
\* with no failure: the event of a line that decodes is persisted.
RecordOneLine ==
  /\ pc = "idle"
  /\ q.pc = "none"
  /\ linesRead < MaxLines
  /\ \E l \in FileLines :
       LET r == ParseEvent(l)
           p == NewEventStore(persisted).persisted
       IN  persisted' = IF l # <<>> /\ r.err = "nil"
                        THEN Append(p, RowOf(Len(p) + 1, r.event))
                        ELSE p
  /\ linesRead' = linesRead + 1
  /\ base' = Len(persisted')
  /\ UNCHANGED <<pc, txs, count, batchSize, ret, line, nonEmpty, nBad, warned,
                 progress, q, codec>>

Next ==
  \/ RecordOpenFails
  \/ RecordBeginFails
  \/ RecordBegin
  \/ ScanLine
  \/ InsertFails
  \/ CommitBatch
  \/ CommitBatchFails
  \/ BeginNext
  \/ BeginNextFails
  \/ ScanEOF
  \/ ScanFails
  \/ CommitFinal
  \/ CommitFinalFails
  \/ Crash
  \/ Exit
  \/ QueryAll
  \/ QueryAllFails
  \/ QueryInvalid
  \/ QueryClose

Spec == Init /\ [][Next]_vars

\* Queries with every combination of flags, on every table that calls of
\* Record can leave behind.
NextQuery ==
  \/ RecordOneLine
  \/ Query
  \/ QueryClose

SpecQuery == Init /\ [][NextQuery]_vars

(***************************************************************************)
(* The codec by itself: lines through ParseEvent and back through          *)
(* Event.String, and events through Event.String and back                  *)
(***************************************************************************)

\* The field texts lines are made of.  The canonical ones are those that
\* Event.String emits: a timestamp as Format writes it, an integer as %d
\* writes it, a non-empty event type, a payload that is valid JSON.
CanonTimestamps == {TsTenZ, TsTenPlus2, TsNineZ}
CanonUserIDs == {Uid42, Uid7}
CanonTypes == {TyLogin, TyView}
CanonPayloads == {PayEmptyObj, PayNull, PayObj, PayPipe}

CanonicalLines ==
  {MkLine(ts, uid, ty, pay) :
     ts \in CanonTimestamps, uid \in CanonUserIDs,
     ty \in CanonTypes, pay \in CanonPayloads}

\* Lines of three, five and six fields: fields that would each be accepted,
\* and fields that would not.
OtherCountLines ==
  {ts \o Sep \o uid \o Sep \o ty : ts \in {TsNineZ, TsBad}, uid \in {Uid42, UidBad},
                                    ty \in {TyLogin, PayObj}}
    \cup {MkLine(ts, uid, ty, pay) \o Sep \o x :
            ts \in {TsTenPlus2, TsBad}, uid \in {Uid7}, ty \in {TyView, TyEmpty},
            pay \in {PayObj, PayBad}, x \in {PayEmptyObj, TyLogin, PayPipe}}

CodecLines ==
  {MkLine(ts, uid, ty, pay) :
     ts \in CanonTimestamps \cup {TsNinePlus0, TsBad},
     uid \in CanonUserIDs \cup {UidPlus7, UidBad},
     ty \in CanonTypes \cup {TyEmpty},
     pay \in CanonPayloads \cup {PayBad}}
    \cup {LineEmpty, LineBlank}
    \cup OtherCountLines

\* Events that satisfy the data model's invariant.
CodecEvents ==
  {[Timestamp |-> ParseTime(ts), UserID |-> uid, EventType |-> ty, Payload |-> pay] :
     ts \in CanonTimestamps, uid \in {42, 7, -7},
     ty \in CanonTypes, pay \in CanonPayloads}

InitCodec ==
  /\ InitStore
  /\ \/ \E l \in CodecLines : codec = [NoCodec EXCEPT !.pc = "line", !.line = l]
     \/ \E e \in CodecEvents : codec = [NoCodec EXCEPT !.pc = "event", !.event = e]

\* ParseEvent(line)
DecodeLine ==
  /\ codec.pc = "line"
  /\ LET r == ParseEvent(codec.line)
     IN  codec' = [codec EXCEPT !.pc = "decoded", !.err = r.err, !.event = r.event]
  /\ UNCHANGED storeVars

\* event.String() of the event a line decoded to
EncodeDecoded ==
  /\ codec.pc = "decoded"
  /\ codec.err = "nil"
  /\ codec' = [codec EXCEPT !.pc = "encoded", !.text = String(codec.event)]
  /\ UNCHANGED storeVars

\* event.String() of a given event
EncodeEvent ==
  /\ codec.pc = "event"
  /\ codec' = [codec EXCEPT !.pc = "printed", !.text = String(codec.event)]
  /\ UNCHANGED storeVars

\* ParseEvent of the line an event was written as
DecodeText ==
  /\ codec.pc = "printed"
  /\ LET r == ParseEvent(codec.text)
     IN  codec' = [codec EXCEPT !.pc = "reparsed", !.err = r.err, !.event2 = r.event]
  /\ UNCHANGED storeVars

NextCodec ==
  \/ DecodeLine
  \/ EncodeDecoded
  \/ EncodeEvent
  \/ DecodeText

SpecCodec == InitCodec /\ [][NextCodec]_vars

(***************************************************************************)
(* One canonical line recorded into an empty store, then queried           *)
(***************************************************************************)

\* handleRecord on a file that holds one canonical line, the store being
\* empty and nothing failing; line keeps the line of the file.
ScenarioRecord ==
  /\ pc = "idle"
  /\ q.pc = "none"
  /\ linesRead = 0
  /\ persisted = <<>>
  /\ \E l \in CanonicalLines :
       LET r == ParseEvent(l)
           p == NewEventStore(persisted).persisted
       IN  /\ persisted' = IF r.err = "nil"
                            THEN Append(p, RowOf(Len(p) + 1, r.event))
                            ELSE p
           /\ line' = l
  /\ linesRead' = 1
  /\ base' = Len(persisted')
  /\ UNCHANGED <<pc, txs, count, batchSize, ret, nonEmpty, nBad, warned,
                 progress, q, codec>>

\* handleQuery afterwards, for a user and with or without --type.
ScenarioQuery ==
  /\ linesRead = 1
  /\ \E userID \in QueryUsers, ty \in {<<>>} \cup CanonTypes :
       QueryWith(userID, ty, <<>>, <<>>)

NextScenario ==
  \/ ScenarioRecord
  \/ ScenarioQuery
  \/ QueryClose

SpecScenario == Init /\ [][NextScenario]_vars

(***************************************************************************)
(* Properties                                                              *)
(***************************************************************************)

Succeeded == pc = "returned" /\ ret.err = "nil"

Failed == pc = "returned" /\ ret.err # "nil"

\* The valid lines the stream has delivered to this call.
NValid == nonEmpty - nBad

Ceil(n, b) == (n + b - 1) \div b

TxsWith(status) == {i \in 1..Len(txs) : txs[i].status = status}

\* The rows of the transactions this call has committed, in order.
RECURSIVE CommittedRows(_)
CommittedRows(n) ==
  IF n = 0 THEN <<>>
  ELSE CommittedRows(n - 1)
         \o (IF txs[n].status = "committed" THEN txs[n].rows ELSE <<>>)

\* The rows this call has persisted.
OwnRows == SubSeq(persisted, base + 1, Len(persisted))

Range(f) == {f[i] : i \in 1..Len(f)}

\* C1 as stated: a successful Record of a stream of N valid lines commits
\* exactly ceil(N / maxBatchSize) transactions, also for N = 0 and for N a
\* multiple of the threshold.
C1_CommitsCeil ==
  Succeeded => Cardinality(TxsWith("committed")) = Ceil(NValid, maxBatchSize)

\* C1 amended: a successful Record of a stream of N valid lines commits
\* N div maxBatchSize full batches and then one final transaction, which is
\* empty when N is 0 or a multiple of the threshold; the committed
\* transactions that hold a record number ceil(N / maxBatchSize).
C1_CommitsFloorPlusOne ==
  Succeeded =>
    /\ Cardinality(TxsWith("committed")) = (NValid \div maxBatchSize) + 1
    /\ Cardinality({i \in TxsWith("committed") : txs[i].rows # <<>>})
         = Ceil(NValid, maxBatchSize)
    /\ \A i \in 1..Len(txs) : txs[i].status = "committed"

C1_Witness ==
  /\ Succeeded
  /\ NValid = 2 * maxBatchSize
  /\ Cardinality(TxsWith("committed")) = 3

\* C2: when Record fails or the process crashes after k full batches were
\* committed, exactly k * maxBatchSize records of the call are persisted:
\* the records of the k committed batches, and none of those staged in a
\* transaction that was not committed.
C2_FailureKeepsFullBatches ==
  (Failed \/ pc = "crashed") =>
    /\ \A i \in TxsWith("committed") : Len(txs[i].rows) = maxBatchSize
    /\ Len(persisted) - base = Cardinality(TxsWith("committed")) * maxBatchSize
    /\ OwnRows = CommittedRows(Len(txs))
    /\ \A i \in 1..Len(txs) :
         txs[i].status # "committed" => Range(txs[i].rows) \cap Range(persisted) = {}

C2_Witness ==
  /\ Failed \/ pc = "crashed"
  /\ Cardinality(TxsWith("committed")) = 1
  /\ Len(txs) = 2
  /\ txs[2].rows # <<>>
  /\ Len(persisted) - base = maxBatchSize

\* C3 as stated: when Record returns an error because an insert or a commit
\* failed, the count it returns is the number of records of this call that
\* are persisted.
C3_FailureCountIsPersisted ==
  (pc = "returned" /\ ret.err \in {"insert", "commit"}) =>
    ret.count = Len(persisted) - base

\* C4 as stated: when Record returns, no transaction it began is left
\* open; on a failing exit the transaction in flight has been rolled back.
C4_NoOpenTxOnReturn ==
  pc = "returned" => \A i \in 1..Len(txs) : txs[i].status # "open"

\* C5: a successful Record of a stream of N non-empty lines of which M do
\* not decode returns the count N - M and has persisted N - M records, the
\* rows it inserted; lines after a malformed line are processed.
C5_SkipsMalformed ==
  Succeeded =>
    /\ ret.count = nonEmpty - nBad
    /\ Len(persisted) - base = nonEmpty - nBad
    /\ warned = nBad
    /\ OwnRows = CommittedRows(Len(txs))

C5_Witness ==
  /\ Succeeded
  /\ nBad >= 1
  /\ line # <<>>
  /\ ParseEvent(line).err = "nil"
  /\ ret.count = nonEmpty - nBad
  /\ ret.count >= 2

\* C6: a query that runs at any point of a Record yields, of the records of
\* that Record, exactly those of the batches committed so far: none of the
\* transaction in flight, and every one of each committed batch (of the
\* queried user); while Record runs each committed batch is a full one.
C6_ReaderSeesCommittedBatches ==
  (q.pc = "done" /\ q.err = "nil") =>
    /\ {id \in Range(q.ids) : id > base}
         = {r.id : r \in {x \in Range(CommittedRows(Len(txs))) :
                            x.user_id = q.userID}}
    /\ \A i \in 1..Len(txs) :
         txs[i].status # "committed" =>
           \A r \in Range(txs[i].rows) : r.id \notin Range(q.ids)
    /\ pc \in {"scan", "commit", "begin", "final"} =>
         \A i \in TxsWith("committed") : Len(txs[i].rows) = maxBatchSize

C6_Witness ==
  /\ q.pc = "done"
  /\ pc \in {"scan", "commit"}
  /\ Len(txs) = 2
  /\ \E r \in Range(txs[1].rows) : r.id \in Range(q.ids)
  /\ \E r \in Range(txs[2].rows) : r.user_id = q.userID

\* Comparison of a stored timestamp with the bounds as instants.
MatchesInstant(row, userID, filters) ==
  /\ row.user_id = userID
  /\ filters.EventType # <<>> => row.event_type = filters.EventType
  /\ ~IsZero(filters.From) => ~After(filters.From, ParseTimeOf(row.timestamp))
  /\ ~IsZero(filters.To) => ~After(ParseTimeOf(row.timestamp), filters.To)

\* C7 as stated: a query with valid filters yields exactly the persisted
\* events of the user that have the event type asked for, if any, and
\* whose instant lies within the inclusive bounds, each once.
C7_YieldsExactlyMatching ==
  (q.pc = "done" /\ q.err = "nil") =>
    /\ Range(q.ids) = {r.id : r \in {x \in Range(persisted) :
                                       MatchesInstant(x, q.userID, q.filters)}}
    /\ Cardinality(Range(q.ids)) = Len(q.ids)

\* C8 as stated: the events a query yields are in non-decreasing order of
\* their instants, whatever offsets their timestamps carry.
C8_NonDecreasingInstants ==
  (q.pc = "done" /\ q.err = "nil") =>
    \A i \in 1..Len(q.out), j \in 1..Len(q.out) :
      i < j => ~After(q.out[i].Timestamp, q.out[j].Timestamp)

\* C9 as stated: a canonical line decodes, and encoding the event gives the
\* line back byte for byte.
C9_EncodeDecode ==
  codec.line \in CanonicalLines =>
    /\ codec.pc = "decoded" => codec.err = "nil"
    /\ codec.pc = "encoded" => codec.text = codec.line

\* C10 as stated: the line of an event that satisfies the data model's
\* invariant decodes, to an event equal to it in every field.
C10_DecodeEncode ==
  codec.pc = "reparsed" =>
    /\ codec.err = "nil"
    /\ codec.event2 = codec.event

\* C11: a line that splits on " | " into a number of fields other than 4
\* (1, 3, 5, 6) decodes to the error MalformedLine and to no event, whether
\* or not its fields would each be accepted.
C11_OtherCountIsMalformed ==
  (codec.pc = "decoded" /\ Len(Split(codec.line, Sep)) # 4) =>
    /\ codec.err = "MalformedLine"
    /\ codec.event = NoEvent

C11_Witness ==
  /\ codec.pc = "decoded"
  /\ Len(Split(codec.line, Sep)) = 5
  /\ ParseEvent(SubSeq(codec.line, 1, Len(codec.line) - Len(Sep \o PayEmptyObj))).err = "nil"
  /\ codec.err = "MalformedLine"
  /\ codec.event = NoEvent

\* C12 as stated: a query whose from is strictly after its to fails with
\* InvalidRange before anything is done on the storage for it: the
\* validation is the first and only step of the request.
C12_InvalidRangeBeforeStorage ==
  (q.pc = "done" /\ q.err = "InvalidRange") => q.steps = <<"Validate">>

\* C13: Validate returns InvalidRange exactly when both bounds are set and
\* from is strictly after to; it returns no error for equal bounds, for one
\* bound, for no bound; and the filters are afterwards as they were given.
C13_InvalidRangeIffFromAfterTo ==
  q.pc = "done" =>
    LET from == q.given.From
        to == q.given.To
    IN  /\ q.err = "InvalidRange" <=>
             /\ from.ok
             /\ to.ok
             /\ from.unix > to.unix \/ (from.unix = to.unix /\ from.nsec > to.nsec)
        /\ q.err \in {"nil", "InvalidRange"}
        /\ q.filters = q.given

C13_Witness ==
  /\ q.pc = "done"
  /\ q.given.From.ok
  /\ q.given.To.ok
  /\ q.given.From.unix = q.given.To.unix
  /\ q.err = "nil"
  /\ q.filters = q.given

\* C14 as stated: after a canonical line L was recorded into an empty
\* store, the query of L's user id with --type set to L's event type
\* yields exactly one event, and the line of that event is L.
C14_SingleLineComesBack ==
  ( /\ linesRead = 1
    /\ line \in CanonicalLines
    /\ q.pc = "done"
    /\ FormatInt(q.userID) = Split(line, Sep)[2]
    /\ q.given = [NoFilters EXCEPT !.EventType = Split(line, Sep)[3]] ) =>
    /\ q.err = "nil"
    /\ q.count = 1
    /\ Len(q.out) = 1
    /\ String(q.out[1]) = line

\* C15: a query, with filters that pass validation, of a user of whom no
\* event is persisted (the store is empty or holds other users' events)
\* yields no event, returns the count 0 and no error.
C15_NoEventsEmptyResult ==
  ( /\ q.pc = "done"
    /\ ~(q.given.From.ok /\ q.given.To.ok /\ q.given.From.unix > q.given.To.unix)
    /\ \A r \in Range(persisted) : r.user_id # q.userID ) =>
    /\ q.err = "nil"
    /\ q.out = <<>>
    /\ q.count = 0

C15_Witness ==
  /\ q.pc = "done"
  /\ q.userID = 7
  /\ Len(persisted) >= 2
  /\ \A r \in Range(persisted) : r.user_id = 42
  /\ q.given.EventType = <<>>
  /\ q.given.From.ok
  /\ TextLeq(FormatTime(q.given.From), persisted[1].timestamp)
  /\ q.err = "nil"
  /\ q.out = <<>>
  /\ q.count = 0

\* The shape yyyy-mm-ddThh:mm:ss followed by Z or by +hh:mm / -hh:mm.
CanonicalShape(t) ==
  /\ Len(t) \in {20, 25}
  /\ \A i \in {1, 2, 3, 4, 6, 7, 9, 10, 12, 13, 15, 16, 18, 19} : IsDigit(t[i])
  /\ t[5] = "-" /\ t[8] = "-" /\ t[11] = "T" /\ t[14] = ":" /\ t[17] = ":"
  /\ IF Len(t) = 20 THEN t[20] = "Z"
     ELSE /\ t[20] \in {"+", "-"}
          /\ \A i \in {21, 22, 24, 25} : IsDigit(t[i])
          /\ t[23] = ":"

\* C16: in every state of the store, whatever lines (valid, malformed,
\* empty) the calls of Record were given, every persisted event has a
\* non-empty event type, a timestamp in the canonical form that parses back
\* to the same text, and a payload that is valid JSON.
C16_PersistedEventsWellFormed ==
  \A r \in Range(persisted) :
    /\ r.event_type # <<>>
    /\ CanonicalShape(r.timestamp)
    /\ ParseTimeOf(r.timestamp).ok
    /\ FormatTimeOf(ParseTimeOf(r.timestamp)) = r.timestamp
    /\ ValidJSON(r.payload)

C16_Witness ==
  /\ linesRead = MaxLines
  /\ Len(persisted) = 2
  /\ \E r \in Range(persisted) : r.user_id = 42 /\ r.timestamp = TsTenZ
  /\ \E r \in Range(persisted) : r.timestamp = TsTenPlus2
  /\ \A r \in Range(persisted) : r.event_type = TyLogin \/ r.payload = PayNull

\* C17 as stated: when Record reads a line that is empty after trimming
\* (the empty line, a line of blanks), it prints no warning, does not count
\* the line as one that failed to decode, stages no record and leaves the
\* count as it is.
C17_BlankLinesSkippedSilently ==
  [][(linesRead' = linesRead + 1 /\ TrimSpace(line') = <<>>) =>
       /\ warned' = warned
       /\ nBad' = nBad
       /\ txs' = txs
       /\ count' = count]_vars

\* C18: throughout Record the transaction in flight holds at most
\* maxBatchSize staged records, and fewer whenever a line is about to be
\* read: the transaction that reaches maxBatchSize is committed before the
\* next line is read, and the transaction begun after it starts with no
\* staged record.  Progress is printed at these commits and at no other
\* point, the k-th time with the count k * maxBatchSize.
C18_BatchBounded ==
  /\ \A i \in 1..Len(txs) :
       /\ Len(txs[i].rows) <= maxBatchSize
       /\ i < Len(txs) =>
            txs[i].status = "committed" /\ Len(txs[i].rows) = maxBatchSize
  /\ pc = "scan" =>
       Tx.status = "open" /\ Len(Tx.rows) < maxBatchSize /\ Len(Tx.rows) = batchSize
  /\ pc = "commit" => Tx.status = "open" /\ Len(Tx.rows) = maxBatchSize
  /\ pc = "begin" => Tx.status = "committed"
  /\ Len(progress)
       = Cardinality({i \in TxsWith("committed") : Len(txs[i].rows) = maxBatchSize})
  /\ \A k \in 1..Len(progress) : progress[k] = k * maxBatchSize

C18_Witness ==
  /\ pc = "scan"
  /\ Len(txs) = 3
  /\ Len(txs[1].rows) = maxBatchSize
  /\ Len(txs[2].rows) = maxBatchSize
  /\ Tx = NewTx
  /\ progress = <<maxBatchSize, 2 * maxBatchSize>>

\* C19: persisted events are only ever added.  No step removes or changes
\* a record that is persisted: not a step of Record, in a first or a later
\* call, before or after a failure, and not a query, which leaves the
\* table exactly as it is whether it succeeds, fails validation or fails
\* while scanning.
C19_PersistedOnlyGrows ==
  [][/\ Len(persisted') >= Len(persisted)
     /\ SubSeq(persisted', 1, Len(persisted)) = persisted
     /\ q' # q => persisted' = persisted]_vars

C19_Witness ==
  /\ base >= 1
  /\ Failed
  /\ Len(persisted) = base + maxBatchSize
  /\ q.pc = "done"
  /\ q.err = "scan"
  /\ q.count >= 1
  /\ q.count < Len(persisted)

\* The zone a timestamp text ends with: Z, or a sign and hh:mm.
ZoneText(t) ==
  IF t[Len(t)] = "Z" THEN <<"Z">> ELSE SubSeq(t, Len(t) - 5, Len(t))

\* All the persisted events of the queried user, and the bounds that are
\* set, carry the UTC offset off.
AllAtOffset(off) ==
  /\ \A r \in Range(persisted) :
       r.user_id = q.userID => ParseZone(ZoneText(r.timestamp)).off = off
  /\ q.filters.From.ok => q.filters.From.off = off
  /\ q.filters.To.ok => q.filters.To.off = off

\* What the lines of four fields hold as written: the timestamp's date and
\* wall clock to the second with its zone, the user id without a plus
\* sign, the event type and the payload, each without blanks around it.
AsWritten ==
  {<<SubSeq(TrimSpace(Split(l, Sep)[1]), 1, 19) \o ZoneText(TrimSpace(Split(l, Sep)[1])),
     IF TrimSpace(Split(l, Sep)[2])[1] = "+"
     THEN Tail(TrimSpace(Split(l, Sep)[2]))
     ELSE TrimSpace(Split(l, Sep)[2]),
     TrimSpace(Split(l, Sep)[3]),
     TrimSpace(Split(l, Sep)[4])>> :
     l \in {x \in FileLines : Len(Split(x, Sep)) = 4}}

\* C20: every persisted timestamp is the text of the line's timestamp at
\* the offset it was written with (its date and wall clock and its zone,
\* not converted to UTC).  A query yields the user's rows whose stored text
\* lies between the texts of the bounds, byte-wise, in non-decreasing order
\* of the stored text.  Whenever all of the user's persisted events and the
\* bounds that are set carry the same UTC offset, the events yielded are
\* exactly those whose instant lies within the bounds, in non-decreasing
\* order of their instants.
C20_TextOrderAgreesAtOneOffset ==
  /\ \A r \in Range(persisted) :
       <<r.timestamp, FormatInt(r.user_id), r.event_type, r.payload>> \in AsWritten
  /\ (q.pc = "done" /\ q.err = "nil") =>
       /\ \A i \in 1..Len(q.ids) :
            LET r == persisted[q.ids[i]]
            IN  /\ r.user_id = q.userID
                /\ q.filters.From.ok => TextLeq(FormatTimeOf(q.filters.From), r.timestamp)
                /\ q.filters.To.ok => TextLeq(r.timestamp, FormatTimeOf(q.filters.To))
       /\ \A i, j \in 1..Len(q.ids) :
            i < j => TextLeq(persisted[q.ids[i]].timestamp, persisted[q.ids[j]].timestamp)
       /\ (\E off \in {0, 7200} : AllAtOffset(off)) =>
            /\ Range(q.ids) = {r.id : r \in {x \in Range(persisted) :
                                               MatchesInstant(x, q.userID, q.filters)}}
            /\ \A i, j \in 1..Len(q.out) :
                 i < j => q.out[i].Timestamp.unix <= q.out[j].Timestamp.unix

C20_Witness ==
  /\ q.pc = "done"
  /\ q.err = "nil"
  /\ AllAtOffset(0)
  /\ q.filters.From.ok
  /\ q.filters.To.ok
  /\ q.ids = <<2, 1>>
  /\ persisted[1].timestamp = TsTenZ
  /\ persisted[2].timestamp = TsNineZ

====
